---------------------------- MODULE Spec2Model ----------------------------
(***************************************************************************)
(* Timekeeper UI (src/src/App.tsx): a React component holding the visible  *)
(* two-month range, the cache of day records, the selected day and the two *)
(* form fields, talking to a remote store over GET / POST / DELETE.        *)
(*                                                                         *)
(* Time is in Unix seconds.  A JS Date at local midnight is represented by *)
(* its day index (days since 2024-03-01); month 0 is March 2024.           *)
(* Numbers (hours, miles) are integers in thousandths; NaN is a sentinel.  *)
(* Text (the form fields) is a sequence of one-character strings.          *)
(***************************************************************************)
EXTENDS Integers, Sequences, FiniteSets, TLC

VARIABLES
    zone,           \* the viewer's timezone (the runtime's setting)
    TZ_OFFSET_SEC,  \* new Date().getTimezoneOffset() * 60, read once at startup
    datesStart,     \* useState: first day of the visible range (a local Date)
    datesEnd,       \* useState: last day of the visible range (a local Date)
    dateInfoUtc,    \* useState: the cache, the DateInfo records last fetched
    dateInfoGen,    \* identity of the cached objects: id of the response that made them
    selectedDate,   \* useState: the selected day, or Undefined
    hours,          \* useState: text of the hours field
    miles,          \* useState: text of the miles field
    store,          \* the remote store: DateInfo records, one per date
    reqs,           \* requests in flight
    nextId          \* id of the next request issued (ids follow the order of issue)

vars == <<zone, TZ_OFFSET_SEC, datesStart, datesEnd, dateInfoUtc, dateInfoGen,
          selectedDate, hours, miles, store, reqs, nextId>>

\* ------------------------------------------------------------- bounds
\* Months the calendar can be navigated to: 0 .. MaxMonth.
MaxMonth == 1
\* Requests issued in one run (ids 1 .. MaxReq).
MaxReq == 4

\* ------------------------------------------------------------ calendar
SecPerDay == 24 * 60 * 60

\* selectedDate === undefined
Undefined == 0 - 1

\* Number.NaN, outside every value the model computes.
NaN == 0 - 999999999

\* Days of model month m (month 0 is March 2024: date-fns' calendar).
DaysIn(m) ==
    LET cal == (m + 2) % 12
        year == 2024 + ((m + 2) \div 12)
    IN  IF cal = 1 THEN (IF year % 4 = 0 THEN 29 ELSE 28)
        ELSE IF cal \in {3, 5, 8, 10} THEN 30 ELSE 31

RECURSIVE DaysBefore(_)
\* The days of the months before month m.
DaysBefore(m) == IF m <= 0 THEN 0 ELSE DaysBefore(m - 1) + DaysIn(m - 1)

\* The months the model's dates fall in: those shown, and two more for the
\* end of the last range.
Months == 0..(MaxMonth + 3)

\* DaysBefore, tabulated.
FirstDayOf == [m \in Months |-> DaysBefore(m)]

\* startOfMonth: day index of the first day of month m.
FirstDay(m) == FirstDayOf[m]

\* lastDayOfMonth: day index of the last day of month m.
LastDay(m) == FirstDay(m + 1) - 1

\* The month of each day, tabulated.
MonthOfDay ==
    [d \in 0..(DaysBefore(MaxMonth + 3) - 1) |->
        CHOOSE m \in Months : DaysBefore(m) <= d /\ d < DaysBefore(m + 1)]

\* The month a day index falls in (getMonth of a local-midnight Date).
MonthOf(d) == MonthOfDay[d]

\* ------------------------------------------------------------ timezone
\* The viewer's zone: getTimezoneOffset() in seconds (positive west of UTC),
\* standard time, and the first day whose local midnight is in summer time
\* (Undefined: the zone has none).  2024-03-11 is day 10.
Zones ==
    { [name |-> "UTC",      std |-> 0,          dstFrom |-> Undefined],
      [name |-> "UTC+1",   std |-> 0 - 3600,   dstFrom |-> Undefined],
      [name |-> "New_York", std |-> 5 * 3600,   dstFrom |-> 10] }

\* Date.prototype.getTimezoneOffset() * 60 for the local midnight of day d.
OffsetAt(z, d) ==
    IF z.dstFrom # Undefined /\ d >= z.dstFrom THEN z.std - 3600 ELSE z.std

\* date-fns getUnixTime of the Date at local midnight of day d.
getUnixTime(z, d) == IF d = Undefined THEN NaN ELSE d * SecPerDay + OffsetAt(z, d)

\* locToUtcUnix(localDate): getUnixTime(localDate) - TZ_OFFSET_SEC.
locToUtcUnix(localDate) ==
    IF getUnixTime(zone, localDate) = NaN THEN NaN
    ELSE getUnixTime(zone, localDate) - TZ_OFFSET_SEC

\* ---------------------------------------------------------------- text
Digits == <<"0", "1", "2", "3", "4", "5", "6", "7", "8", "9">>

IsDigit(c) == \E i \in 1..10 : Digits[i] = c

DigitVal(c) == (CHOOSE i \in 1..10 : Digits[i] = c) - 1

RECURSIVE DigitsVal(_)
\* The value of a run of digits.
DigitsVal(s) ==
    IF s = <<>> THEN 0
    ELSE DigitsVal(SubSeq(s, 1, Len(s) - 1)) * 10 + DigitVal(s[Len(s)])

RECURSIVE DigitPrefix(_)
\* The longest prefix of s made of digits.
DigitPrefix(s) ==
    IF s = <<>> \/ ~IsDigit(Head(s)) THEN <<>>
    ELSE <<Head(s)>> \o DigitPrefix(Tail(s))

\* parseFloat(text), in thousandths: an optional sign, digits, an optional
\* fraction; NaN when no digit is found (the empty string included).
parseFloat(s) ==
    LET neg  == s # <<>> /\ Head(s) = "-"
        body == IF neg THEN Tail(s) ELSE s
        ip   == DigitPrefix(body)
        rest == SubSeq(body, Len(ip) + 1, Len(body))
        fp   == IF rest # <<>> /\ Head(rest) = "." THEN DigitPrefix(Tail(rest)) ELSE <<>>
        fp3  == SubSeq(fp \o <<"0", "0", "0">>, 1, 3)
        mag  == DigitsVal(ip) * 1000 + DigitsVal(fp3)
    IN  IF ip = <<>> /\ fp = <<>> THEN NaN
        ELSE IF neg THEN 0 - mag ELSE mag

RECURSIVE IntText(_)
\* The decimal digits of a natural number.
IntText(n) ==
    IF n < 10 THEN <<Digits[n + 1]>>
    ELSE IntText(n \div 10) \o <<Digits[(n % 10) + 1]>>

\* Number.prototype.toFixed(2) of a number in thousandths.
toFixed2(n) ==
    IF n = NaN THEN <<"N", "a", "N">>
    ELSE LET mag == IF n < 0 THEN 0 - n ELSE n
             hun == (mag + 5) \div 10
         IN  (IF n < 0 THEN <<"-">> ELSE <<>>)
             \o IntText(hun \div 100) \o <<".">>
             \o <<Digits[((hun % 100) \div 10) + 1], Digits[(hun % 10) + 1]>>

\* What the user can type into a number input: "" (cleared, or not a
\* number), "0", "8.00".
TypedTexts == { <<>>, <<"0">>, <<"8", ".", "0", "0">> }

\* ------------------------------------------------------------ requests
\* The range a render closes over: what a handler created by that render
\* reads as datesStart and datesEnd, also after an await.
Closure(ds, de) == [datesStart |-> ds, datesEnd |-> de]

\* A request: its HTTP content (kind, from/to or date/hours/miles), its
\* progress (state, body), and who issued it: origin is "load", "nav",
\* "submit" or "refresh"; owner is the id of the submit it belongs to (0: none);
\* closure is the issuing handler's closure.
Req(id, kind, origin, from, to, date, h, m, owner, closure) ==
    [id |-> id, kind |-> kind, origin |-> origin, from |-> from, to |-> to,
     date |-> date, hours |-> h, miles |-> m, state |-> "sent", body |-> {},
     owner |-> owner, closure |-> closure]


\* fetch(`${API_ROOT}?from=${utcUnixFrom}&to=${utcUnixTo}`)
apiFetchDateInfo(id, utcUnixFrom, utcUnixTo, origin, owner, closure) ==
    Req(id, "GET", origin, utcUnixFrom, utcUnixTo, 0, 0, 0, owner, closure)

\* fetch(`${API_ROOT}?date=${utcUnixDate}`, {method: 'DELETE'})
apiDeleteDateInfo(id, utcUnixDate, closure) ==
    Req(id, "DELETE", "submit", 0, 0, utcUnixDate, 0, 0, id, closure)

\* fetch(`${API_ROOT}`, {method: 'POST', body: JSON.stringify(info)})
apiSetDateInfo(id, info, closure) ==
    Req(id, "POST", "submit", 0, 0, info.date, info.hours, info.miles, id, closure)

\* ----------------------------------------------------------- component
\* date-fns fromUnixTime(t), new Date(t * 1000): a Date is its time value,
\* held as whole seconds and the milliseconds past them.
fromUnixTime(t) == [sec |-> t, ms |-> 0]

\* locToUtcUnix of a Date given by its time value: getUnixTime(date) is its
\* whole seconds.
locToUtcUnixOfDate(date) == date.sec - TZ_OFFSET_SEC

\* A faulty toLocal: the offset is subtracted, as on the way to the store.
toLocal_Subtract(u) == fromUnixTime(u - TZ_OFFSET_SEC)

\* fromUnixTime(d.date + TZ_OFFSET_SEC): the Date shown for a canonical date.
toLocal(u) == fromUnixTime(u + TZ_OFFSET_SEC)

\* A faulty bothDates: a record with hours or miles counts as both.
bothDates_Either(infos) ==
    { toLocal(d.date) :
        d \in { x \in infos : x.hours > 0 \/ x.miles > 0 } }

\* dateInfoUtc.filter(d => d.hours > 0 && d.miles > 0)
\*            .map(d => fromUnixTime(d.date + TZ_OFFSET_SEC))
bothDates(infos) ==
    { toLocal(d.date) :
        d \in { x \in infos : x.hours > 0 /\ x.miles > 0 } }

\* dateInfoUtc.filter(d => d.hours > 0).map(d => fromUnixTime(d.date + TZ_OFFSET_SEC))
hoursDates(infos) ==
    { toLocal(d.date) : d \in { x \in infos : x.hours > 0 } }

\* dateInfoUtc.filter(d => d.miles > 0).map(d => fromUnixTime(d.date + TZ_OFFSET_SEC))
milesDates(infos) ==
    { toLocal(d.date) : d \in { x \in infos : x.miles > 0 } }

\* modifiers={{both: bothDates, ...}}: the calendar gives day d the modifier
\* when one of its Dates falls on d, a day of the viewer's zone.
HasModifier(dates, d) ==
    \E t \in dates : /\ getUnixTime(zone, d) <= t.sec
                     /\ t.sec < getUnixTime(zone, d + 1)

\* dateInfoUtc.find(d => selectedDate && d.date === locToUtcUnix(selectedDate)):
\* the matching records (none, or the one of that date).
selectedInfo(infos, sel) ==
    { d \in infos : sel # Undefined /\ d.date = locToUtcUnix(sel) }

\* A faulty SelectedInfoId: the dependency is compared by the record's
\* values, so a re-fetched record that did not change is the same dependency.
SelectedInfoId_ByValue(infos, gen, sel) ==
    IF selectedInfo(infos, sel) = {} THEN <<>>
    ELSE <<0, CHOOSE d \in selectedInfo(infos, sel) : TRUE>>

\* The identity of selectedInfo, the dependency of the form effect: the cached
\* object (the response that made it, and its record), or <<>> for undefined.
SelectedInfoId(infos, gen, sel) ==
    IF selectedInfo(infos, sel) = {} THEN <<>>
    ELSE <<gen, CHOOSE d \in selectedInfo(infos, sel) : TRUE>>

\* useEffect(..., [selectedInfo]): the fields after a render in which the
\* dependency went from oldDep to newDep, h and m being the fields before it.
FormEffect(oldDep, newDep, h, m) ==
    IF newDep = oldDep THEN [hours |-> h, miles |-> m]
    ELSE IF newDep # <<>>
         THEN [hours |-> toFixed2(newDep[2].hours), miles |-> toFixed2(newDep[2].miles)]
         ELSE [hours |-> <<>>, miles |-> <<>>]

\* A state update followed by its render and the effects of that render.
Render(ds, de, infos, gen, sel, h, m) ==
    LET after == FormEffect(SelectedInfoId(dateInfoUtc, dateInfoGen, selectedDate),
                            SelectedInfoId(infos, gen, sel), h, m)
    IN  /\ datesStart' = ds
        /\ datesEnd' = de
        /\ dateInfoUtc' = infos
        /\ dateInfoGen' = gen
        /\ selectedDate' = sel
        /\ hours' = after.hours
        /\ miles' = after.miles

\* The current render's closure.
Now == Closure(datesStart, datesEnd)

\* A faulty SubmitDisabled: the hours field is not checked.
SubmitDisabled_NoHoursCheck(sel, h, m) == sel = Undefined \/ m = <<>>

\* Submit's disabled={selectedDate === undefined || !miles || !hours}
SubmitDisabled(sel, h, m) == sel = Undefined \/ m = <<>> \/ h = <<>>

\* A faulty BothZero: the field texts are compared with "0" instead of
\* their parsed values with 0.
BothZero_TextCompare(h, m) == h = <<"0">> /\ m = <<"0">>

\* hFloat === 0 && mFloat === 0
BothZero(h, m) == parseFloat(h) = 0 /\ parseFloat(m) = 0

\* A faulty handleSubmit: the mutation is not awaited, the re-pull is issued
\* with it.
handleSubmit_NoAwait(id, sel, h, m, c) ==
    { apiSetDateInfo(id, [date  |-> locToUtcUnix(sel),
                          hours |-> parseFloat(h),
                          miles |-> parseFloat(m)], c),
      apiFetchDateInfo(id + 1, locToUtcUnix(c.datesStart), locToUtcUnix(c.datesEnd),
                       "refresh", id, c) }

\* A faulty handleSubmit: the selected Date's own Unix time is sent, without
\* the translation to the canonical date.
handleSubmit_RawDate(id, sel, h, m, c) ==
    IF BothZero(h, m)
    THEN { apiDeleteDateInfo(id, getUnixTime(zone, sel), c) }
    ELSE { apiSetDateInfo(id, [date  |-> getUnixTime(zone, sel),
                               hours |-> parseFloat(h),
                               miles |-> parseFloat(m)], c) }

\* handleSubmit up to its first await: the mutation it issues, from the
\* selection and the fields of the render the click happened in.
handleSubmit(id, sel, h, m, c) ==
    IF BothZero(h, m)
    THEN { apiDeleteDateInfo(id, locToUtcUnix(sel), c) }
    ELSE { apiSetDateInfo(id, [date  |-> locToUtcUnix(sel),
                               hours |-> parseFloat(h),
                               miles |-> parseFloat(m)], c) }

\* handleSubmit after the awaited mutation r: the re-pull, with the range of
\* the closure the handler was created in.
handleSubmitResume(id, r) ==
    { apiFetchDateInfo(id, locToUtcUnix(r.closure.datesStart),
                       locToUtcUnix(r.closure.datesEnd),
                       "refresh", r.owner, r.closure) }

\* handleMonthChange(m): the range it sets, m being the first day of a month.
MonthRange(m) == [ds |-> m, de |-> LastDay(MonthOf(m) + 1)]

\* A faulty handleMonthChange: the fetch reads datesStart and datesEnd, which
\* still hold the range of the render the handler was created in.
handleMonthChange_StaleState(id, m, c) ==
    { apiFetchDateInfo(id, locToUtcUnix(c.datesStart), locToUtcUnix(c.datesEnd),
                       "nav", 0, c) }

\* handleMonthChange(m): the fetch it issues.
handleMonthChange(id, m, c) ==
    LET ds == MonthRange(m).ds
        de == MonthRange(m).de
    IN  { apiFetchDateInfo(id, locToUtcUnix(ds), locToUtcUnix(de), "nav", 0, c) }

\* A faulty CacheOnResponse: a fetched range is merged into the cache.
CacheOnResponse_Merge(r, infos) == IF r.kind = "GET" THEN infos \cup r.body ELSE infos

\* A faulty CacheOnResponse: the response of a POST puts the posted record
\* into the cache (an optimistic update).
CacheOnResponse_Optimistic(r, infos) ==
    IF r.kind = "GET" THEN r.body
    ELSE IF r.kind = "POST"
         THEN { x \in infos : x.date # r.date }
              \cup { [date |-> r.date, hours |-> r.hours, miles |-> r.miles] }
         ELSE infos

\* What a response does to the cache: .then(infos => setDateInfoUtc(infos))
\* and setDateInfoUtc(await apiFetchDateInfo(...)); a mutation's response
\* sets nothing.
CacheOnResponse(r, infos) == IF r.kind = "GET" THEN r.body ELSE infos

\* ---------------------------------------------------------------- store
\* GET /?from&to: the records with from <= date <= to.
ResponseBody(st, r) ==
    IF r.kind = "GET" THEN { x \in st : r.from <= x.date /\ x.date <= r.to } ELSE {}

\* A faulty StoreAfter: POST inserts the record and keeps the one the date had.
StoreAfter_Insert(st, r) ==
    IF r.kind = "POST"
    THEN st \cup { [date |-> r.date, hours |-> r.hours, miles |-> r.miles] }
    ELSE IF r.kind = "DELETE" THEN { x \in st : x.date # r.date }
    ELSE st

\* POST / upserts the record of that date; DELETE /?date removes it.
StoreAfter(st, r) ==
    IF r.kind = "POST"
    THEN { x \in st : x.date # r.date }
         \cup { [date |-> r.date, hours |-> r.hours, miles |-> r.miles] }
    ELSE IF r.kind = "DELETE" THEN { x \in st : x.date # r.date }
    ELSE st

\* The canonical date of a day: 00:00:00 UTC.
UtcMidnight(d) == d * SecPerDay

Rec(d, h, m) == [date |-> UtcMidnight(d), hours |-> h, miles |-> m]

\* The store the session finds: records of earlier sessions around the month
\* boundaries (2024-03-01, 03-31, 04-01, 05-31, 06-01), none of them
\* zero/zero, and none for today.
InitStores ==
    { { Rec(FirstDay(0), 0, 8000), Rec(LastDay(0), 8000, 0),
        Rec(FirstDay(1), 8000, 8000), Rec(LastDay(2), 8000, 8000),
        Rec(FirstDay(3), 8000, 0) } }

\* Days the session may start on: 2024-04-30 (the calendar then shows March
\* and April).
Todays == { LastDay(1) }

\* ----------------------------------------------------------------- init
\* After the first render and its effects: the range is the previous and the
\* current month, today is selected, the cache is empty and the initial
\* fetch (request 1) is in flight.
Init ==
    /\ zone \in Zones
    /\ \E today \in Todays :
        /\ TZ_OFFSET_SEC = OffsetAt(zone, today)
        /\ datesStart = FirstDay(MonthOf(today) - 1)
        /\ datesEnd = LastDay(MonthOf(today))
        /\ selectedDate = today
    /\ dateInfoUtc = {}
    /\ dateInfoGen = 0
    /\ hours = <<>>
    /\ miles = <<>>
    /\ store \in InitStores
    /\ reqs = { apiFetchDateInfo(1, locToUtcUnix(datesStart), locToUtcUnix(datesEnd),
                                 "load", 0, Now) }
    /\ nextId = 2

\* -------------------------------------------------------------- actions
\* Requests still to come from the submits in flight (each awaits its
\* mutation, then issues its re-pull).
PendingRefreshes == Cardinality({ r \in reqs : r.origin = "submit" })

\* n more requests fit the run's bound.
CanIssue(n) == (nextId - 1) + PendingRefreshes + n <= MaxReq

\* The days the user can click: the last days of the two months shown.
VisibleDays ==
    LET m == MonthOf(datesStart)
    IN  { LastDay(m), LastDay(m + 1) }

\* onSelect={setSelectedDate}: a click on a day selects it, a click on the
\* selected day deselects.
Select(d) ==
    /\ d \in VisibleDays
    /\ Render(datesStart, datesEnd, dateInfoUtc, dateInfoGen,
              IF d = selectedDate THEN Undefined ELSE d, hours, miles)
    /\ UNCHANGED <<zone, TZ_OFFSET_SEC, store, reqs, nextId>>

\* onChange={e => setHours(e.target.value)}; the input is disabled without a selection.
SetHours(t) ==
    /\ selectedDate # Undefined
    /\ t \in TypedTexts
    /\ t # hours
    /\ Render(datesStart, datesEnd, dateInfoUtc, dateInfoGen, selectedDate, t, miles)
    /\ UNCHANGED <<zone, TZ_OFFSET_SEC, store, reqs, nextId>>

\* onChange={e => setMiles(e.target.value)}
SetMiles(t) ==
    /\ selectedDate # Undefined
    /\ t \in TypedTexts
    /\ t # miles
    /\ Render(datesStart, datesEnd, dateInfoUtc, dateInfoGen, selectedDate, hours, t)
    /\ UNCHANGED <<zone, TZ_OFFSET_SEC, store, reqs, nextId>>

\* A click on Submit: handleSubmit runs to its first await.
ClickSubmit ==
    /\ ~SubmitDisabled(selectedDate, hours, miles)
    /\ CanIssue(2)
    /\ LET new == handleSubmit(nextId, selectedDate, hours, miles, Now)
       IN  /\ reqs' = reqs \cup new
           /\ nextId' = nextId + Cardinality(new)
    /\ UNCHANGED <<zone, TZ_OFFSET_SEC, datesStart, datesEnd, dateInfoUtc, dateInfoGen,
                   selectedDate, hours, miles, store>>

\* onMonthChange={handleMonthChange}: the calendar moves by one month.
MonthChange(m) ==
    /\ m \in { FirstDay(k) : k \in 0..MaxMonth }
    /\ MonthOf(m) \in { MonthOf(datesStart) - 1, MonthOf(datesStart) + 1 }
    /\ CanIssue(1)
    /\ reqs' = reqs \cup handleMonthChange(nextId, m, Now)
    /\ nextId' = nextId + 1
    /\ Render(MonthRange(m).ds, MonthRange(m).de, dateInfoUtc, dateInfoGen,
              selectedDate, hours, miles)
    /\ UNCHANGED <<zone, TZ_OFFSET_SEC, store>>

\* The store serves a request; its response is on its way.  Every request is
\* served and answered with a 2xx; the store serves requests in any order.
Serve(r) ==
    /\ r \in reqs
    /\ r.state = "sent"
    /\ store' = StoreAfter(store, r)
    /\ reqs' = (reqs \ {r}) \cup { [r EXCEPT !.state = "served", !.body = ResponseBody(store, r)] }
    /\ UNCHANGED <<zone, TZ_OFFSET_SEC, datesStart, datesEnd, dateInfoUtc, dateInfoGen,
                   selectedDate, hours, miles, nextId>>

\* The response of a range fetch arrives: the cache is set.
DeliverFetch(r) ==
    /\ r \in reqs
    /\ r.state = "served"
    /\ r.kind = "GET"
    /\ reqs' = reqs \ {r}
    /\ Render(datesStart, datesEnd, CacheOnResponse(r, dateInfoUtc), r.id,
              selectedDate, hours, miles)
    /\ UNCHANGED <<zone, TZ_OFFSET_SEC, store, nextId>>

\* The response of a submit's POST or DELETE arrives: handleSubmit resumes
\* and issues its re-pull.
DeliverMutation(r) ==
    /\ r \in reqs
    /\ r.state = "served"
    /\ r.kind # "GET"
    /\ LET new == handleSubmitResume(nextId, r)
       IN  /\ reqs' = (reqs \ {r}) \cup new
           /\ nextId' = nextId + Cardinality(new)
    /\ Render(datesStart, datesEnd, CacheOnResponse(r, dateInfoUtc), dateInfoGen,
              selectedDate, hours, miles)
    /\ UNCHANGED <<zone, TZ_OFFSET_SEC, store>>

Next ==
    \/ \E d \in VisibleDays : Select(d)
    \/ \E t \in TypedTexts : SetHours(t)
    \/ \E t \in TypedTexts : SetMiles(t)
    \/ ClickSubmit
    \/ \E k \in 0..MaxMonth : MonthChange(FirstDay(k))
    \/ \E r \in reqs : Serve(r)
    \/ \E r \in reqs : DeliverFetch(r)
    \/ \E r \in reqs : DeliverMutation(r)

Spec == Init /\ [][Next]_vars

\* ------------------------------------------------- a session on a new store
\* As Init, the store holding no record yet.
InitEmptyStore ==
    /\ zone \in Zones
    /\ \E today \in Todays :
        /\ TZ_OFFSET_SEC = OffsetAt(zone, today)
        /\ datesStart = FirstDay(MonthOf(today) - 1)
        /\ datesEnd = LastDay(MonthOf(today))
        /\ selectedDate = today
    /\ dateInfoUtc = {}
    /\ dateInfoGen = 0
    /\ hours = <<>>
    /\ miles = <<>>
    /\ store = {}
    /\ reqs = { apiFetchDateInfo(1, locToUtcUnix(datesStart), locToUtcUnix(datesEnd),
                                 "load", 0, Now) }
    /\ nextId = 2

\* onSelect={setSelectedDate}: a click on the first day of the range shown.
SelectRangeStart ==
    /\ Render(datesStart, datesEnd, dateInfoUtc, dateInfoGen,
              IF datesStart = selectedDate THEN Undefined ELSE datesStart, hours, miles)
    /\ UNCHANGED <<zone, TZ_OFFSET_SEC, store, reqs, nextId>>

NextEmptyStore ==
    \/ Next
    \/ SelectRangeStart

SpecEmptyStore == InitEmptyStore /\ [][NextEmptyStore]_vars

\* ------------------------------------------- a store that answers non-2xx
\* The store answers a range fetch with a non-2xx status, and a body that is
\* JSON (the empty array) or is not JSON.
ServeError(r, json) ==
    /\ r \in reqs
    /\ r.state = "sent"
    /\ r.kind = "GET"
    /\ reqs' = (reqs \ {r})
               \cup { [r EXCEPT !.state = IF json THEN "failed" ELSE "failedNoJson",
                                !.body = {}] }
    /\ UNCHANGED <<zone, TZ_OFFSET_SEC, datesStart, datesEnd, dateInfoUtc, dateInfoGen,
                   selectedDate, hours, miles, store, nextId>>

\* The non-2xx response of a range fetch arrives.  apiFetchDateInfo does not
\* look at the status: res.json() parses the body, and what it yields is set
\* as the cache; a body that is not JSON makes it reject, and the caller's
\* setDateInfoUtc is never reached.
DeliverFailedFetch(r) ==
    /\ r \in reqs
    /\ r.state \in {"failed", "failedNoJson"}
    /\ reqs' = reqs \ {r}
    /\ IF r.state = "failed"
       THEN Render(datesStart, datesEnd, CacheOnResponse(r, dateInfoUtc), r.id,
                   selectedDate, hours, miles)
       ELSE Render(datesStart, datesEnd, dateInfoUtc, dateInfoGen,
                   selectedDate, hours, miles)
    /\ UNCHANGED <<zone, TZ_OFFSET_SEC, store, nextId>>

NextServerError ==
    \/ Next
    \/ \E r \in reqs : \E json \in BOOLEAN : ServeError(r, json)
    \/ \E r \in reqs : DeliverFailedFetch(r)

\* A session of a viewer in UTC.
InitUtc == Init /\ zone.name = "UTC"

SpecServerError == InitUtc /\ [][NextServerError]_vars

\* ------------------------------------------------ a user who types a sign
\* The number inputs set no min: the user can type "-8".
NegativeTexts == { <<"-", "8">> }

\* onChange={e => setHours(e.target.value)}, the text typed being negative.
SetHoursNegative(t) ==
    /\ selectedDate # Undefined
    /\ t \in NegativeTexts
    /\ t # hours
    /\ Render(datesStart, datesEnd, dateInfoUtc, dateInfoGen, selectedDate, t, miles)
    /\ UNCHANGED <<zone, TZ_OFFSET_SEC, store, reqs, nextId>>

\* onChange={e => setMiles(e.target.value)}, the text typed being negative.
SetMilesNegative(t) ==
    /\ selectedDate # Undefined
    /\ t \in NegativeTexts
    /\ t # miles
    /\ Render(datesStart, datesEnd, dateInfoUtc, dateInfoGen, selectedDate, hours, t)
    /\ UNCHANGED <<zone, TZ_OFFSET_SEC, store, reqs, nextId>>

NextNegativeInput ==
    \/ Next
    \/ \E t \in NegativeTexts : SetHoursNegative(t)
    \/ \E t \in NegativeTexts : SetMilesNegative(t)

SpecNegativeInput == InitUtc /\ [][NextNegativeInput]_vars

\* --------------------------------------------------------------- claims
\* Requests issued by the step.
Issued == { r \in reqs' : \A q \in reqs : q.id # r.id }

\* Request r is served by the step.
ServedNow(r) == r \in reqs /\ r.state = "sent" /\ \E q \in reqs' : q.id = r.id /\ q.state = "served"

\* The response of request r is received by the step.
ReceivedNow(r) == r \in reqs /\ r.state = "served" /\ r \notin reqs'

\* C1: the store never holds a record with hours = 0 and miles = 0; a submit
\* whose parsed hours and miles are both 0 issues a DELETE for the selected
\* day's canonical date and never a POST of zeros; and when that DELETE is
\* served the store holds no record of that date.
C1_ZeroSubmitDeletes ==
    /\ [](\A x \in store : ~(x.hours = 0 /\ x.miles = 0))
    /\ [][\A r \in Issued : r.origin = "submit" =>
            /\ r.kind = "POST" => ~(r.hours = 0 /\ r.miles = 0)
            /\ (parseFloat(hours) = 0 /\ parseFloat(miles) = 0) =>
                  (r.kind = "DELETE" /\ r.date = locToUtcUnix(selectedDate))]_vars
    /\ [][\A r \in reqs : (r.kind = "DELETE" /\ ServedNow(r)) =>
            \A x \in store' : x.date # r.date]_vars

\* C1 witness: the DELETE of 2024-03-31, which had a record, has been served
\* and the record is gone.
C1_Witness ==
    \E r \in reqs :
        /\ r.kind = "DELETE" /\ r.state = "served"
        /\ r.date = UtcMidnight(LastDay(0))
        /\ \A x \in store : x.date # r.date

\* C2 (as claimed): a response to an earlier range request never replaces the
\* cache set by a later one: the request whose response is in the cache
\* never goes back in the order of issue.
C2_LatestRequestWins == [][dateInfoGen' >= dateInfoGen]_vars

\* C3 (as claimed): the re-pull after a submit requests the range displayed
\* when it is issued.
C3_RefreshUsesCurrentRange ==
    [][\A r \in Issued : r.origin = "refresh" =>
          /\ r.from = locToUtcUnix(datesStart')
          /\ r.to = locToUtcUnix(datesEnd')]_vars

\* C4: a submit's re-pull is issued only in the step that receives the
\* response of that submit's POST or DELETE.
C4_RefreshAfterResponse ==
    [][\A r \in Issued : r.origin = "refresh" =>
          \E q \in reqs : q.id = r.owner /\ q.kind # "GET" /\ ReceivedNow(q)]_vars

\* C4 witness: a re-pull is in flight, and its submit's mutation is not.
C4_Witness ==
    \E r \in reqs : r.origin = "refresh" /\ \A q \in reqs : q.id # r.owner

\* C5 (as claimed): at most one request is outstanding.
C5_AtMostOneOutstanding == Cardinality(reqs) <= 1

\* C5 (amended): the requests of one submit are not concurrent with each
\* other: at most one request of any submit is outstanding.
C5_OnePerSubmit ==
    \A r1, r2 \in reqs : (r1.owner # 0 /\ r1.owner = r2.owner) => r1 = r2

\* C5 witness: a submit's request is outstanding together with the request
\* of another event.
C5_Witness ==
    \E r1, r2 \in reqs : r1.owner # 0 /\ r2.owner # r1.owner

\* C6: handleMonthChange(m) requests exactly the canonical first day of m and
\* the canonical last day of the month after m, the bounds it stores as
\* datesStart and datesEnd, and never the bounds displayed before.
C6_MonthChangeFetchesNewRange ==
    [][\A r \in Issued : r.origin = "nav" =>
          /\ r.kind = "GET"
          /\ \E k \in 0..(MaxMonth + 1) :
                /\ datesStart' = FirstDay(k)
                /\ datesEnd' = FirstDay(k + 2) - 1
          /\ r.from = locToUtcUnix(datesStart')
          /\ r.to = locToUtcUnix(datesEnd')
          /\ r.from # locToUtcUnix(datesStart)
          /\ r.to # locToUtcUnix(datesEnd)]_vars

\* C6 witness: the fetch of a navigation to April is in flight.
C6_Witness ==
    \E r \in reqs :
        /\ r.origin = "nav" /\ r.state = "sent"
        /\ datesStart = FirstDay(1)
        /\ r.from = locToUtcUnix(FirstDay(1))

\* The fetch of a navigation from the March view to the April view.
NavMarchToApril(r) ==
    /\ r.origin = "nav"
    /\ r.closure.datesStart = FirstDay(0)
    /\ r.from = locToUtcUnix(FirstDay(1))

\* C7 (as claimed): when the fetch of a navigation from March to April
\* completes with nothing else pending, the cache is exactly the store's
\* records of April 1 - April 30.
C7_AprilOnly ==
    [][\A r \in reqs : (NavMarchToApril(r) /\ ReceivedNow(r) /\ reqs' = {}) =>
          dateInfoUtc' = { x \in store' : /\ UtcMidnight(FirstDay(1)) <= x.date
                                          /\ x.date <= UtcMidnight(LastDay(1)) }]_vars

\* C7 (amended): the store answers the fetch of a navigation from March to
\* April with exactly its records within the requested range, the canonical
\* April 1 to the canonical May 31, and when that response is received the
\* cache becomes exactly those records.
C7_AprilAndMay ==
    /\ [][\A r \in reqs : (NavMarchToApril(r) /\ ServedNow(r)) =>
            \E q \in reqs' :
                /\ q.id = r.id
                /\ q.body = { x \in store : /\ locToUtcUnix(FirstDay(1)) <= x.date
                                            /\ x.date <= locToUtcUnix(LastDay(2)) }]_vars
    /\ [][\A r \in reqs : (NavMarchToApril(r) /\ ReceivedNow(r)) =>
            dateInfoUtc' = r.body]_vars

\* C7 witness: request 2, a navigation to April, has completed with nothing
\* pending; the cache holds the records of April 1 and of May 31 and not
\* that of March 31.
C7_Witness ==
    /\ reqs = {}
    /\ datesStart = FirstDay(1)
    /\ dateInfoGen = 2
    /\ dateInfoUtc = { x \in store : /\ UtcMidnight(FirstDay(1)) <= x.date
                                     /\ x.date <= UtcMidnight(LastDay(2)) }
    /\ \E x \in dateInfoUtc : x.date = UtcMidnight(LastDay(2))
    /\ \E x \in store : x.date = UtcMidnight(LastDay(0))

\* C8 (as claimed): whenever the selection changes to a day without a cached
\* record, or to no selection, both fields are cleared.
C8_ClearedOnSelectionChange ==
    [][(selectedDate' # selectedDate /\ selectedInfo(dateInfoUtc', selectedDate') = {})
          => (hours' = <<>> /\ miles' = <<>>)]_vars

\* C9: a POST or DELETE is issued only by a step that starts with a day
\* selected and both fields non-empty and parsing as numbers.
C9_SubmitNeedsValidForm ==
    [][\A r \in Issued : r.kind # "GET" =>
          /\ selectedDate # Undefined
          /\ hours # <<>> /\ parseFloat(hours) # NaN
          /\ miles # <<>> /\ parseFloat(miles) # NaN
          /\ r.date # NaN /\ r.hours # NaN /\ r.miles # NaN]_vars

\* C9 witness: a POST of 8 hours is in flight.
C9_Witness ==
    \E r \in reqs : r.kind = "POST" /\ r.state = "sent" /\ r.hours = 8000

\* C10: the cache changes only in a step that receives the response of a
\* range fetch, and then becomes exactly that response's records; the click
\* on Submit and the response of the POST or DELETE leave it as it is.
C10_CacheOnlyByFetch ==
    [][(dateInfoUtc' # dateInfoUtc \/ dateInfoGen' # dateInfoGen) =>
          \E r \in reqs : /\ r.kind = "GET" /\ ReceivedNow(r)
                          /\ dateInfoUtc' = r.body /\ dateInfoGen' = r.id]_vars

\* C10 witness: a submit's POST has been served and answered, its re-pull
\* is in flight, and the cache still shows the initial fetch, without the
\* posted record.
C10_Witness ==
    \E r \in reqs :
        /\ r.origin = "refresh"
        /\ dateInfoGen = 1
        /\ \E x \in store : /\ r.from <= x.date /\ x.date <= r.to
                            /\ x \notin dateInfoUtc

\* The store's records whose canonical date lies in the displayed range.
StoreInDisplayedRange(st, ds, de) ==
    { x \in st : UtcMidnight(ds) <= x.date /\ x.date <= UtcMidnight(de) }

\* C11 (as claimed): once every request has been answered and no event
\* follows, the cache is exactly the store's records of the displayed range:
\* when the response of a submit's re-pull is received and nothing else is
\* pending, the cache equals those records.
C11_QuiescentCacheIsCurrent ==
    [][\A r \in reqs : (r.origin = "refresh" /\ ReceivedNow(r) /\ reqs' = {}) =>
          dateInfoUtc' = StoreInDisplayedRange(store', datesStart', datesEnd')]_vars

\* The record a POST carries.
Posted(r) == [date |-> r.date, hours |-> r.hours, miles |-> r.miles]

C14_Classification ==
    /\ \A x \in dateInfoUtc :
          LET t == toLocal(x.date)
          IN  /\ (t \in bothDates(dateInfoUtc)) <=> (x.hours > 0 /\ x.miles > 0)
              /\ (t \in hoursDates(dateInfoUtc)) <=> (x.hours > 0)
              /\ (t \in milesDates(dateInfoUtc)) <=> (x.miles > 0)
    /\ bothDates(dateInfoUtc) = hoursDates(dateInfoUtc) \cap milesDates(dateInfoUtc)
    /\ \A t \in bothDates(dateInfoUtc) \cup hoursDates(dateInfoUtc) \cup milesDates(dateInfoUtc) :
          \E x \in dateInfoUtc : t = toLocal(x.date)

\* C14 witness: the cache holds a record with miles only (2024-03-01), one
\* with hours only (03-31) and one with both (04-01), and the day 04-30, which
\* has no record, has none of the three modifiers.
C14_Witness ==
    /\ { Rec(FirstDay(0), 0, 8000), Rec(LastDay(0), 8000, 0),
         Rec(FirstDay(1), 8000, 8000) } \subseteq dateInfoUtc
    /\ Cardinality(bothDates(dateInfoUtc)) = 1
    /\ Cardinality(hoursDates(dateInfoUtc)) = 2
    /\ Cardinality(milesDates(dateInfoUtc)) = 2
    /\ ~HasModifier(hoursDates(dateInfoUtc) \cup milesDates(dateInfoUtc), LastDay(1))

\* The days of the months the model's dates fall in.
Days == 0..(DaysBefore(MaxMonth + 3) - 1)

\* C13 (as claimed): a submit of values not both zero posts the record
\* {UTC midnight of the selected day, parsed hours, parsed miles}; served, it
\* changes the store's record of that date and no other; and when a re-pull
\* is received, every day whose record it brings with hours > 0 and
\* miles > 0 has the modifier "both".
C13_UpsertAtUtcMidnight ==
    /\ [][\A r \in Issued : r.kind = "POST" =>
            Posted(r) = [date  |-> UtcMidnight(selectedDate),
                         hours |-> parseFloat(hours),
                         miles |-> parseFloat(miles)]]_vars
    /\ [][\A r \in reqs : (r.kind = "POST" /\ ServedNow(r)) =>
            store' = { x \in store : x.date # r.date } \cup { Posted(r) }]_vars
    /\ [][\A r \in reqs : (r.origin = "refresh" /\ ReceivedNow(r)) =>
            \A x \in r.body : (x.hours > 0 /\ x.miles > 0) =>
                \E d \in Days : /\ x.date = UtcMidnight(d)
                                /\ HasModifier(bothDates(dateInfoUtc'), d)]_vars

\* C15 (as claimed): every date sent to the store is a multiple of 86400
\* seconds: the from and to of a GET, which for the initial load and a
\* re-pull are the UTC midnights of the first and last day of the issuing
\* render's range, and the date of a POST or DELETE.
C15_DatesUtcAligned ==
    \A r \in reqs :
        IF r.kind = "GET"
        THEN /\ r.from % SecPerDay = 0
             /\ r.to % SecPerDay = 0
             /\ r.origin \in {"load", "refresh"} =>
                   /\ r.from = UtcMidnight(r.closure.datesStart)
                   /\ r.to = UtcMidnight(r.closure.datesEnd)
        ELSE r.date % SecPerDay = 0

\* The first and last days of the months, and the days on either side of
\* the zone's change to summer time.
BoundaryDays ==
    UNION { { FirstDay(m), LastDay(m) } : m \in 0..(MaxMonth + 2) }
    \cup (IF zone.dstFrom = Undefined THEN {} ELSE { zone.dstFrom - 1, zone.dstFrom })

\* C16: with the session's offset, toLocal after toCanonical gives back the
\* Date at local midnight of every day (stated for the days at the month
\* boundaries and at the change to summer time), and toCanonical after
\* toLocal gives back every canonical date, whatever the offset (0 included); the
\* translator of a day and of its local-midnight Date agree.
C16_RoundTrip ==
    /\ \A d \in BoundaryDays :
          /\ toLocal(locToUtcUnix(d)) = fromUnixTime(getUnixTime(zone, d))
          /\ locToUtcUnixOfDate(fromUnixTime(getUnixTime(zone, d))) = locToUtcUnix(d)
          /\ locToUtcUnixOfDate(toLocal(UtcMidnight(d))) = UtcMidnight(d)
    /\ \A x \in dateInfoUtc : locToUtcUnixOfDate(toLocal(x.date)) = x.date

\* C16 witness: in a zone whose offset is not 0, the selected day has a
\* cached record, and the Date shown for it is the day's local midnight.
C16_Witness ==
    /\ TZ_OFFSET_SEC # 0
    /\ selectedDate # Undefined
    /\ \E x \in selectedInfo(dateInfoUtc, selectedDate) :
          toLocal(x.date) = fromUnixTime(getUnixTime(zone, selectedDate))

\* C17 (as claimed): when the non-2xx response of a range fetch is received,
\* the cache is left as it was.
C17_FailedFetchKeepsCache ==
    [][\A r \in reqs :
          (r.kind = "GET" /\ r.state \in {"failed", "failedNoJson"} /\ r \notin reqs')
              => dateInfoUtc' = dateInfoUtc]_vars

\* C18 (as claimed): every record the store holds has hours >= 0 and
\* miles >= 0, and so has every record a submit posts.
C18_NonNegativeRecords ==
    /\ \A x \in store : x.hours >= 0 /\ x.miles >= 0
    /\ \A r \in reqs : r.kind = "POST" => (r.hours >= 0 /\ r.miles >= 0)

\* C19: after a step that changes the selection, or that replaces the cache
\* by a fetch's response, if the selected day has a cached record then both
\* fields show that record's hours and miles with 2 decimals, whatever they
\* showed before and whether or not the record's values changed.
C19_FieldsFollowRecord ==
    [][((selectedDate' # selectedDate \/ dateInfoGen' # dateInfoGen)
          /\ selectedInfo(dateInfoUtc', selectedDate') # {})
       => \A x \in selectedInfo(dateInfoUtc', selectedDate') :
             /\ hours' = toFixed2(x.hours)
             /\ miles' = toFixed2(x.miles)]_vars

\* C19 witness: a submit's re-pull has replaced the cache, nothing is
\* pending, and the fields show the selected day's record.
C19_Witness ==
    /\ reqs = {}
    /\ dateInfoGen > 2
    /\ \E x \in selectedInfo(dateInfoUtc, selectedDate) :
          /\ hours = toFixed2(x.hours)
          /\ miles = toFixed2(x.miles)
          /\ x.hours = 8000

\* C20: the POST or DELETE a click on Submit issues carries the translated
\* date of the day selected in that step's starting state and the parsed
\* values of the fields then shown (a DELETE when both are 0); and while the
\* request is in flight no step changes its kind, date or values.
C20_MutationFixedAtClick ==
    /\ [][\A r \in Issued : r.kind # "GET" =>
            /\ r.date = locToUtcUnix(selectedDate)
            /\ r.kind = "POST" =>
                  (r.hours = parseFloat(hours) /\ r.miles = parseFloat(miles))
            /\ r.kind = "DELETE" =>
                  (parseFloat(hours) = 0 /\ parseFloat(miles) = 0)]_vars
    /\ [][\A r \in reqs : \A q \in reqs' : (q.id = r.id /\ r.kind # "GET") =>
            /\ q.kind = r.kind
            /\ q.date = r.date
            /\ q.hours = r.hours
            /\ q.miles = r.miles]_vars

\* C20 witness: a POST is in flight, and the selection and the hours field
\* are no longer what it was issued with.
C20_Witness ==
    \E r \in reqs :
        /\ r.kind = "POST"
        /\ r.date # locToUtcUnix(selectedDate)
        /\ r.hours # parseFloat(hours)

=============================================================================
